---- MODULE Spec2Model ----
(***************************************************************************)
(* Model of lib/ansible/modules/cloud/ovirt/ovirt_affinity_labels.py:      *)
(* one module run (main) against a remote engine holding one affinity      *)
(* label and its VM / host assignments.                                    *)
(***************************************************************************)
EXTENDS Integers, Sequences, FiniteSets, TLC

\* Longest desired list (module.params['vms'] / ['hosts']) that is enumerated.
MaxLen == 2

None == "None"
KindSet == {"vms", "hosts"}
Names == [vms |-> {"a", "b"}, hosts |-> {"a"}]
ClusterNames == {"c1", "c2"}

\* The engine's inventory: id -> (name, cluster) of every VM and host.
\* VMs 1 and 3 share a name across clusters, hosts 1 and 2 share name and cluster.
Inventory ==
    [vms   |-> <<[name |-> "a", cluster |-> "c1"],
                 [name |-> "b", cluster |-> "c1"],
                 [name |-> "a", cluster |-> "c2"]>>,
     hosts |-> <<[name |-> "a", cluster |-> "c1"],
                 [name |-> "a", cluster |-> "c1"]>>]

Ids(kind) == DOMAIN Inventory[kind]
ObjName(kind, id) == Inventory[kind][id].name
ObjCluster(kind, id) == Inventory[kind][id].cluster

VARIABLES
    labelExists,   \* remote: the label is found by search_entity
    assigned,      \* remote: kind -> ids of the entities carrying the label
    pc,            \* position in main()
    params,        \* module.params (pre_remove overwrites vms and hosts)
    check_mode,    \* module.check_mode
    changed,       \* self.changed
    entity,        \* "none", "found", "created": what create()/remove() work on
    connection,    \* the local variable connection: "unbound", "open", "closed"
    result,        \* "none", "rejected", "exit_json", "fail_json"
    cleanupError,  \* the finally block itself raised
    calls,         \* mutating remote calls issued by this run, in order
    closeCount,    \* number of connection.close calls of this run
    invoked,       \* history: module.params as given by the caller
    pre,           \* history: remote state when this run started
    prev           \* history: the preceding successful run with the same params

vars == <<labelExists, assigned, pc, params, check_mode, changed, entity,
          connection, result, cleanupError, calls, closeCount, invoked, pre, prev>>

----------------------------------------------------------------------------
\* Helpers

Range(s) == {s[i] : i \in DOMAIN s}

SeqsUpTo(S, n) == UNION {[1..k -> S] : k \in 0..n}

Min(S) == CHOOSE x \in S : \A y \in S : x <= y

RECURSIVE SortedSeq(_)
SortedSeq(S) == IF S = {} THEN <<>> ELSE <<Min(S)>> \o SortedSeq(S \ {Min(S)})

\* All orders in which a dict with key set S may be iterated.
Orderings(S) == {o \in [1..Cardinality(S) -> S] : Range(o) = S}

NoList == [given |-> FALSE, names |-> <<>>]
ListParams(kind) ==
    {NoList} \cup {[given |-> TRUE, names |-> l] : l \in SeqsUpTo(Names[kind], MaxLen)}

Invocations ==
    [state : {"present", "absent"}, cluster : ClusterNames \cup {None},
     vms : ListParams("vms"), hosts : ListParams("hosts")]

NoAssignments == [k \in KindSet |-> {}]
NoParams == [state |-> "present", cluster |-> None, vms |-> NoList, hosts |-> NoList]
NoRemote == [exists |-> FALSE, assigned |-> NoAssignments]
NoPrev == [valid |-> FALSE, check_mode |-> FALSE, changed |-> FALSE, pre |-> NoRemote]

----------------------------------------------------------------------------
\* _update_label_assignments

\* Variant of objs_names: the cluster test is left out.
objs_namesUnfiltered(kind, cluster, asg) ==
    [n \in {ObjName(kind, id) : id \in asg} |->
        SortedSeq({id \in asg : ObjName(kind, id) = n})]

\* objs_names: name -> ids, of the labelled entities that pass the cluster test.
objs_names(kind, cluster, asg) ==
    LET ids == {id \in asg : cluster = None \/ ObjCluster(kind, id) = cluster}
    IN  [n \in {ObjName(kind, id) : id \in ids} |->
            SortedSeq({id \in ids : ObjName(kind, id) = n})]

\* Variant of list: the search is by name only.
listAnyCluster(kind, name, cluster) ==
    SortedSeq({id \in Ids(kind) : ObjName(kind, id) = name})

\* objs_service.list(search='name=%s and cluster=%s')
list(kind, name, cluster) ==
    SortedSeq({id \in Ids(kind) : ObjName(kind, id) = name /\ ObjCluster(kind, id) = cluster})

Call(op, kind, id) == [op |-> op, kind |-> kind, id |-> id]

\* Variant of AddFound: self.changed is set only next to the add call.
AddFoundChangedIfReal(kind, found, check, acc) ==
    [calls   |-> acc.calls \o (IF check THEN <<>>
                               ELSE [i \in 1..Len(found) |-> Call("add", kind, found[i])]),
     changed |-> acc.changed \/ (~check /\ Len(found) > 0)]

\* Variant of AddFound: only the first match of the search is added.
AddFoundFirstOnly(kind, found, check, acc) ==
    [calls   |-> acc.calls \o (IF check \/ found = <<>> THEN <<>>
                               ELSE <<Call("add", kind, found[1])>>),
     changed |-> acc.changed \/ Len(found) > 0]

\* for obj_id in objs_service.list(...): add unless check_mode; changed = True
AddFound(kind, found, check, acc) ==
    [calls   |-> acc.calls \o (IF check THEN <<>>
                               ELSE [i \in 1..Len(found) |-> Call("add", kind, found[i])]),
     changed |-> acc.changed \/ Len(found) > 0]

RECURSIVE AddLoop(_, _, _, _, _, _)
\* for obj in params[name]: if obj not in objs_names: ...
AddLoop(kind, desired, names, cluster, check, acc) ==
    IF desired = <<>> THEN acc
    ELSE AddLoop(kind, Tail(desired), names, cluster, check,
                 IF Head(desired) \notin DOMAIN names
                 THEN AddFound(kind, list(kind, Head(desired), cluster), check, acc)
                 ELSE acc)

\* Variant of RemoveIds: the check_mode test is left out.
RemoveIdsUnchecked(kind, ids, check, acc) ==
    [calls   |-> acc.calls \o [i \in 1..Len(ids) |-> Call("remove", kind, ids[i])],
     changed |-> TRUE]

\* Variant of RemoveIds: only the first id grouped under the name is removed.
RemoveIdsFirstOnly(kind, ids, check, acc) ==
    [calls   |-> acc.calls \o (IF check THEN <<>> ELSE <<Call("remove", kind, ids[1])>>),
     changed |-> TRUE]

\* for obj_id in objs_names[obj]: remove unless check_mode; changed = True
RemoveIds(kind, ids, check, acc) ==
    [calls   |-> acc.calls \o (IF check THEN <<>>
                               ELSE [i \in 1..Len(ids) |-> Call("remove", kind, ids[i])]),
     changed |-> TRUE]

RECURSIVE RemoveLoop(_, _, _, _, _, _)
\* for obj in objs_names: if obj not in params[name]: ...
RemoveLoop(kind, order, names, desired, check, acc) ==
    IF order = <<>> THEN acc
    ELSE RemoveLoop(kind, Tail(order), names, desired, check,
                    IF Head(order) \notin Range(desired)
                    THEN RemoveIds(kind, names[Head(order)], check, acc)
                    ELSE acc)

\* Variant of Reconciled: an unset list is handled like an empty one.
ReconciledAlways(p, kind) == TRUE

\* if self._module.params[name] is not None
Reconciled(p, kind) == p[kind].given

\* One call of _update_label_assignments: the mutating calls it issues and
\* whether it sets self.changed; order is the iteration order of objs_names.
update_label_assignments(kind, p, check, asg, order) ==
    IF ~Reconciled(p, kind) THEN [calls |-> <<>>, changed |-> FALSE]
    ELSE LET names == objs_names(kind, p.cluster, asg)
             added == AddLoop(kind, p[kind].names, names, p.cluster, check,
                              [calls |-> <<>>, changed |-> FALSE])
         IN  RemoveLoop(kind, order, names, p[kind].names, check, added)

\* Effect of one mutating call on the assignments of the label.
ApplyCall(asg, c) ==
    IF c.op = "add" THEN [asg EXCEPT ![c.kind] = @ \cup {c.id}]
    ELSE IF c.op = "remove" THEN [asg EXCEPT ![c.kind] = @ \ {c.id}]
    ELSE asg

RECURSIVE ApplyCalls(_, _)
ApplyCalls(asg, cs) ==
    IF cs = <<>> THEN asg ELSE ApplyCalls(ApplyCall(asg, Head(cs)), Tail(cs))

\* pre_remove: both lists become empty lists
pre_remove(p) ==
    [p EXCEPT !.vms = [given |-> TRUE, names |-> <<>>],
              !.hosts = [given |-> TRUE, names |-> <<>>]]

\* Variant of Dispatch: every state runs create().
DispatchCreateOnly(state) == "create"

\* main: state == 'present' -> create(), state == 'absent' -> remove()
Dispatch(state) == IF state = "present" THEN "create" ELSE "remove"

----------------------------------------------------------------------------
Init ==
    /\ labelExists \in BOOLEAN
    /\ assigned \in [KindSet -> SUBSET (1..3)]
    /\ \A k \in KindSet : assigned[k] \subseteq Ids(k)
    /\ ~labelExists => assigned = NoAssignments
    /\ pc = "idle"
    /\ params = NoParams
    /\ check_mode = FALSE
    /\ changed = FALSE
    /\ entity = "none"
    /\ connection = "unbound"
    /\ result = "none"
    /\ cleanupError = FALSE
    /\ calls = <<>>
    /\ closeCount = 0
    /\ invoked = NoParams
    /\ pre = [exists |-> labelExists, assigned |-> assigned]
    /\ prev = NoPrev

\* A fresh process: the state every run of main() starts from.
Start(p, check) ==
    /\ params' = p
    /\ invoked' = p
    /\ check_mode' = check
    /\ changed' = FALSE
    /\ entity' = "none"
    /\ connection' = "unbound"
    /\ cleanupError' = FALSE
    /\ calls' = <<>>
    /\ closeCount' = 0
    /\ pre' = [exists |-> labelExists, assigned |-> assigned]
    /\ UNCHANGED <<labelExists, assigned>>

\* required_if: state=present needs cluster
Valid(p) == p.state = "present" => p.cluster # None

\* AnsibleModule(...) accepts the arguments and check_sdk passes.  Init already
\* ranges over every remote state, so a run with other arguments than the
\* preceding one is a behaviour that starts in that remote state.
Invoke ==
    /\ pc = "idle"
    /\ \E p \in Invocations, check \in BOOLEAN :
          /\ Valid(p)
          /\ Start(p, check)
    /\ pc' = "connect"
    /\ result' = "none"
    /\ prev' = NoPrev

\* The same task is run again after a successful run (check mode may differ).
Reinvoke ==
    /\ pc = "done"
    /\ result = "exit_json"
    /\ \E check \in BOOLEAN : Start(invoked, check)
    /\ pc' = "connect"
    /\ result' = "none"
    /\ prev' = [valid |-> TRUE, check_mode |-> check_mode, changed |-> changed, pre |-> pre]

\* AnsibleModule(...) fails on required_if before the try block is entered.
Reject ==
    /\ pc = "idle"
    /\ \E p \in Invocations, check \in BOOLEAN :
          /\ ~Valid(p)
          /\ Start(p, check)
    /\ pc' = "done"
    /\ result' = "rejected"
    /\ prev' = NoPrev

Raise ==
    /\ pc' = "except"
    /\ UNCHANGED <<params, check_mode, changed, entity, result, cleanupError,
                   closeCount, invoked, pre, prev>>

\* connection = create_connection(...)
Connect ==
    /\ pc = "connect"
    /\ connection' = "open"
    /\ pc' = "search"
    /\ UNCHANGED <<labelExists, assigned, params, check_mode, changed, entity, result,
                   cleanupError, calls, closeCount, invoked, pre, prev>>

ConnectFails ==
    /\ pc = "connect"
    /\ Raise
    /\ UNCHANGED <<labelExists, assigned, connection, calls>>

\* create() / remove(): search_entity, then the branch on its result
Search ==
    /\ pc = "search"
    /\ IF labelExists
       THEN /\ entity' = "found"
            /\ params' = IF Dispatch(params.state) = "remove" THEN pre_remove(params) ELSE params
            /\ pc' = "sync_vms"
            /\ changed' = changed
       ELSE /\ entity' = "none"
            /\ params' = params
            /\ IF Dispatch(params.state) = "create"
               THEN /\ pc' = IF check_mode THEN "exit" ELSE "add_label"
                    /\ changed' = (changed \/ check_mode)
               ELSE /\ pc' = "exit"
                    /\ changed' = changed
    /\ UNCHANGED <<labelExists, assigned, check_mode, connection, result, cleanupError,
                   calls, closeCount, invoked, pre, prev>>

SearchFails ==
    /\ pc = "search"
    /\ Raise
    /\ UNCHANGED <<labelExists, assigned, connection, calls>>

\* create(): self._service.add(build_entity()), then post_create
AddLabel ==
    /\ pc = "add_label"
    /\ labelExists' = TRUE
    /\ assigned' = NoAssignments
    /\ entity' = "created"
    /\ calls' = Append(calls, Call("create", "label", 0))
    /\ pc' = "sync_vms"
    /\ UNCHANGED <<params, check_mode, changed, connection, result, cleanupError,
                   closeCount, invoked, pre, prev>>

AddLabelFails ==
    /\ pc = "add_label"
    /\ Raise
    /\ UNCHANGED <<labelExists, assigned, connection, calls>>

KindAt == [sync_vms |-> "vms", sync_hosts |-> "hosts"]
AfterSync == [sync_vms |-> "sync_hosts", sync_hosts |-> "after"]

\* update_check: one _update_label_assignments call runs to its end
SyncAssignments ==
    /\ pc \in DOMAIN KindAt
    /\ LET kind == KindAt[pc]
       IN  \E order \in Orderings(DOMAIN objs_names(kind, params.cluster, assigned[kind])) :
              LET r == update_label_assignments(kind, params, check_mode, assigned[kind], order)
              IN  /\ calls' = calls \o r.calls
                  /\ assigned' = ApplyCalls(assigned, r.calls)
                  /\ changed' = (changed \/ r.changed)
    /\ pc' = AfterSync[pc]
    /\ UNCHANGED <<labelExists, params, check_mode, entity, connection, result,
                   cleanupError, closeCount, invoked, pre, prev>>

\* A remote call of _update_label_assignments raises after k mutating calls went through.
SyncFails ==
    /\ pc \in DOMAIN KindAt
    /\ Reconciled(params, KindAt[pc])
    /\ LET kind == KindAt[pc]
       IN  \E order \in Orderings(DOMAIN objs_names(kind, params.cluster, assigned[kind])) :
              LET r == update_label_assignments(kind, params, check_mode, assigned[kind], order)
              IN  \E k \in 0..Len(r.calls) :
                     /\ k = 0 \/ k < Len(r.calls)
                     /\ calls' = calls \o SubSeq(r.calls, 1, k)
                     /\ assigned' = ApplyCalls(assigned, SubSeq(r.calls, 1, k))
    /\ Raise
    /\ UNCHANGED <<labelExists, connection>>

\* create() after update_check / post_create returned
CreateReturn ==
    /\ pc = "after"
    /\ Dispatch(params.state) = "create"
    /\ changed' = (changed \/ entity = "created")
    /\ pc' = "exit"
    /\ UNCHANGED <<labelExists, assigned, params, check_mode, entity, connection, result,
                   cleanupError, calls, closeCount, invoked, pre, prev>>

\* remove() after pre_remove returned: delete the label unless check_mode
RemoveLabel ==
    /\ pc = "after"
    /\ Dispatch(params.state) = "remove"
    /\ IF check_mode
       THEN UNCHANGED <<labelExists, assigned, calls>>
       ELSE /\ labelExists' = FALSE
            /\ assigned' = NoAssignments
            /\ calls' = Append(calls, Call("delete", "label", 0))
    /\ changed' = TRUE
    /\ pc' = "exit"
    /\ UNCHANGED <<params, check_mode, entity, connection, result, cleanupError,
                   closeCount, invoked, pre, prev>>

RemoveLabelFails ==
    /\ pc = "after"
    /\ Dispatch(params.state) = "remove"
    /\ ~check_mode
    /\ Raise
    /\ UNCHANGED <<labelExists, assigned, connection, calls>>

\* module.exit_json(**ret)
ExitJson ==
    /\ pc = "exit"
    /\ result' = "exit_json"
    /\ pc' = "finally"
    /\ UNCHANGED <<labelExists, assigned, params, check_mode, changed, entity, connection,
                   cleanupError, calls, closeCount, invoked, pre, prev>>

\* except Exception: module.fail_json(msg, exception)
FailJson ==
    /\ pc = "except"
    /\ result' = "fail_json"
    /\ pc' = "finally"
    /\ UNCHANGED <<labelExists, assigned, params, check_mode, changed, entity, connection,
                   cleanupError, calls, closeCount, invoked, pre, prev>>

\* finally: connection.close(logout=False)
Finally ==
    /\ pc = "finally"
    /\ IF connection = "unbound"
       THEN /\ cleanupError' = TRUE
            /\ UNCHANGED <<connection, closeCount>>
       ELSE /\ connection' = "closed"
            /\ closeCount' = closeCount + 1
            /\ cleanupError' = cleanupError
    /\ pc' = "done"
    /\ UNCHANGED <<labelExists, assigned, params, check_mode, changed, entity, result,
                   calls, invoked, pre, prev>>

Next ==
    \/ Invoke \/ Reinvoke \/ Reject
    \/ Connect \/ ConnectFails
    \/ Search \/ SearchFails
    \/ AddLabel \/ AddLabelFails
    \/ SyncAssignments \/ SyncFails
    \/ CreateReturn
    \/ RemoveLabel \/ RemoveLabelFails
    \/ ExitJson \/ FailJson
    \/ Finally

Spec == Init /\ [][Next]_vars

TypeOK ==
    /\ labelExists \in BOOLEAN
    /\ \A k \in KindSet : assigned[k] \subseteq Ids(k)
    /\ changed \in BOOLEAN
    /\ closeCount \in 0..1

----------------------------------------------------------------------------
\* Vocabulary of the properties

Success == pc = "done" /\ result = "exit_json"

InFilter(kind, id, cluster) == cluster = None \/ ObjCluster(kind, id) = cluster

\* Names of the entities in S that the cluster filter lets through.
FilteredNames(kind, cluster, S) ==
    {ObjName(kind, id) : id \in {i \in S : InFilter(kind, i, cluster)}}

Count(op, kind, id) ==
    Cardinality({i \in DOMAIN calls : calls[i] = Call(op, kind, id)})

Occurrences(s, x) == Cardinality({i \in DOMAIN s : s[i] = x})

AssignmentCalls(kind) ==
    {i \in DOMAIN calls : calls[i].kind = kind /\ calls[i].op \in {"add", "remove"}}

EmptyList(l) == l.given /\ l.names = <<>>

----------------------------------------------------------------------------
\* C1: after a successful non-dry-run pass with state=present, for each kind
\* whose desired list is given, the names of the assigned entities matching
\* the cluster filter are exactly the names of the desired list.
C1_SetEquality ==
    (Success /\ ~check_mode /\ invoked.state = "present") =>
        \A k \in KindSet :
            invoked[k].given =>
                FilteredNames(k, invoked.cluster, assigned[k]) = Range(invoked[k].names)

\* C2: a non-dry-run pass that follows a successful non-dry-run pass with the
\* same desired state, nothing else having touched the remote state, sets
\* changed at no point and issues no add, remove, create or delete call.
C2_Idempotent ==
    (prev.valid /\ ~prev.check_mode /\ ~check_mode) => (~changed /\ calls = <<>>)

C2_Witness ==
    /\ Success /\ ~check_mode
    /\ prev.valid /\ ~prev.check_mode /\ prev.changed
    /\ invoked.state = "present"
    /\ prev.pre.assigned # assigned

\* C3: in check mode no assignment add or remove call is issued and the
\* label's VM and host assignments stay what they were when the pass started.
C3_DryRunNoMutation ==
    check_mode =>
        /\ \A k \in KindSet : AssignmentCalls(k) = {}
        /\ assigned = pre.assigned

C3_Witness ==
    /\ Success /\ check_mode /\ changed
    /\ invoked.state = "present" /\ entity = "found"
    /\ \E k \in KindSet :
          FilteredNames(k, invoked.cluster, assigned[k]) \ Range(invoked[k].names) # {}

\* C4: a successful real pass started from the remote state a successful
\* dry-run pass with the same desired state started from reports the changed
\* value the dry-run pass reported.
C4_DryRunSameChanged ==
    (Success /\ ~check_mode /\ prev.valid /\ prev.check_mode /\ prev.pre = pre) =>
        changed = prev.changed

C4_Witness ==
    /\ Success /\ ~check_mode /\ prev.valid /\ prev.check_mode /\ prev.pre = pre
    /\ changed /\ calls # <<>> /\ pre.exists

\* C5: after a successful non-dry-run pass with state=absent, whatever cluster,
\* vms and hosts are, the label does not exist, nothing is assigned to it, and
\* changed tells whether the label existed before the pass.
C5_AbsentRemovesAll ==
    (Success /\ ~check_mode /\ invoked.state = "absent") =>
        /\ ~labelExists
        /\ assigned = NoAssignments
        /\ changed = pre.exists

C5_Witness ==
    /\ Success /\ ~check_mode /\ invoked.state = "absent"
    /\ invoked.cluster = "c1" /\ ~invoked.vms.given
    /\ pre.exists /\ 3 \in pre.assigned.vms
    /\ changed

\* C6 as stated: whenever a list is not given, whatever the state, the pass
\* issues no add or remove call of that kind and the assignments of that kind
\* are what they were before the pass.
C6_Original ==
    \A k \in KindSet :
        ~invoked[k].given =>
            /\ AssignmentCalls(k) = {}
            /\ assigned[k] = pre.assigned[k]

\* C6 amended: with state=present, whenever a list is not given the pass
\* issues no add or remove call of that kind and the assignments of that kind
\* are what they were before the pass.
C6_Amended ==
    \A k \in KindSet :
        (invoked.state = "present" /\ ~invoked[k].given) =>
            /\ AssignmentCalls(k) = {}
            /\ assigned[k] = pre.assigned[k]

C6_Witness ==
    /\ Success /\ ~check_mode /\ invoked.state = "present"
    /\ ~invoked.vms.given /\ invoked.hosts.given
    /\ pre.assigned.vms # {} /\ assigned.vms = pre.assigned.vms
    /\ AssignmentCalls("hosts") # {}

\* What an empty list achieves in a successful non-dry-run pass: nothing of
\* the kind inside the cluster filter stays assigned, and every id that was
\* assigned inside the filter got exactly one remove call.
EmptyListRemovesAll(k) ==
    (Success /\ ~check_mode /\ EmptyList(invoked[k])) =>
        /\ \A id \in assigned[k] : ~InFilter(k, id, invoked.cluster)
        /\ \A id \in pre.assigned[k] :
              InFilter(k, id, invoked.cluster) => Count("remove", k, id) = 1

\* C7 as stated: an empty list removes every assignment of the kind inside the
\* cluster filter, and changed is true exactly when such an assignment existed.
C7_Original ==
    \A k \in KindSet :
        /\ EmptyListRemovesAll(k)
        /\ (Success /\ ~check_mode /\ EmptyList(invoked[k])) =>
              (changed <=> \E id \in pre.assigned[k] : InFilter(k, id, invoked.cluster))

\* C7 amended: an empty list removes every assignment of the kind inside the
\* cluster filter; the synchronisation of that kind sets changed when such an
\* assignment exists and leaves changed as it was when none does (changed may
\* be true for another reason: the label was created or deleted, or the other
\* kind changed).
C7_Amended ==
    /\ [](\A k \in KindSet : EmptyListRemovesAll(k))
    /\ [][(pc \in DOMAIN KindAt /\ pc' = AfterSync[pc] /\ EmptyList(params[KindAt[pc]])) =>
            (changed' <=> (changed \/ \E id \in assigned[KindAt[pc]] :
                                        InFilter(KindAt[pc], id, params.cluster)))]_vars

C7_Witness ==
    /\ Success /\ ~check_mode /\ invoked.state = "present"
    /\ EmptyList(invoked.hosts)
    /\ pre.assigned.hosts = {1, 2} /\ assigned.hosts = {}
    /\ changed

\* C8: every run that entered the try block ends with the connection closed
\* exactly once, with an exit_json or fail_json result, and without an error
\* raised by the cleanup step.
C8_AlwaysReleased ==
    (pc = "done" /\ result # "rejected") =>
        /\ closeCount = 1
        /\ connection = "closed"
        /\ ~cleanupError
        /\ result \in {"exit_json", "fail_json"}

\* Names grouped in objs_names when the synchronisation of kind k started.
CurrentNames(k) == FilteredNames(k, params.cluster, pre.assigned[k])

\* The removal half of C9: in a successful non-dry-run pass that synchronised
\* the assignments, every id grouped under a current name that is not desired
\* got exactly one remove call, and no other id got any.
RemovesEveryGroupedId(k) ==
    \A id \in Ids(k) :
        Count("remove", k, id) =
            IF /\ params[k].given
               /\ id \in pre.assigned[k]
               /\ InFilter(k, id, params.cluster)
               /\ ObjName(k, id) \notin Range(params[k].names)
            THEN 1 ELSE 0

Outside(k) == {id \in Ids(k) : ~InFilter(k, id, invoked.cluster)}

\* No add or remove call targets an entity outside the cluster filter.
NoCallOutside ==
    \A k \in KindSet : \A i \in AssignmentCalls(k) : calls[i].id \notin Outside(k)

\* The changed value a synchronisation step adds does not depend on the
\* assignments outside the cluster filter.
ChangedIgnoresOutside ==
    (pc \in DOMAIN KindAt /\ pc' = AfterSync[pc]) =>
        LET k == KindAt[pc]
            inside == assigned[k] \ Outside(k)
        IN  \A order \in Orderings(FilteredNames(k, params.cluster, inside)) :
               changed' = (changed \/
                   update_label_assignments(k, params, check_mode, inside, order).changed)

\* C10 as stated: with a cluster filter, an entity outside the cluster gets no
\* add or remove call, is assigned after the pass exactly if it was before,
\* and does not influence changed.
C10_Original ==
    /\ [](/\ NoCallOutside
          /\ \A k \in KindSet : assigned[k] \cap Outside(k) = pre.assigned[k] \cap Outside(k))
    /\ [][ChangedIgnoresOutside]_vars

\* C10 amended: with a cluster filter, an entity outside the cluster gets no
\* add or remove call and does not influence changed, and it is assigned
\* after the pass exactly if it was before unless the pass deleted the label
\* (state=absent, not dry-run), which releases every assignment.
C10_Amended ==
    /\ [](/\ NoCallOutside
          /\ labelExists =>
                \A k \in KindSet :
                    assigned[k] \cap Outside(k) = pre.assigned[k] \cap Outside(k))
    /\ [][ChangedIgnoresOutside]_vars

C10_Witness ==
    /\ Success /\ ~check_mode /\ invoked.state = "present" /\ invoked.cluster = "c1"
    /\ 3 \in pre.assigned.vms /\ 3 \in assigned.vms
    /\ 1 \in pre.assigned.vms /\ 1 \notin assigned.vms
    /\ changed
====
